---- MODULE Spec2Model ----
(***************************************************************************)
(* State-machine model of the VoiceVisualizer component                    *)
(* (src/src/components/VoiceVisualizer.tsx).                               *)
(*                                                                         *)
(* One commit of the component is modelled as an event (a handler, a timer *)
(* or a worker message) followed by the effects whose dependencies the     *)
(* event changed; the effects run in source order (layout effect first)    *)
(* and no further event is taken until they have all run.                  *)
(*                                                                         *)
(* Lengths are CSS pixels, the device pixel ratio is kept in halves        *)
(* (dpr2 = 2 * devicePixelRatio) and a time is a fraction [num, den].      *)
(*                                                                         *)
(* `called` and `arg` record what the last step invoked (the helpers and   *)
(* collaborator functions it called, and the event's argument); sinceDraw  *)
(* and resized record the tick history of the live-stream renderer.        *)
(***************************************************************************)
EXTENDS Integers, Sequences, FiniteSets

\* ---------------------------------------------------------------- bounds
RingCap == 2
MaxStale == 1

\* ------------------------------------------------------ program constants
DefaultSpeed == 3
DefaultBarWidth == 2
DefaultGap == 1
MobileBreakpoint == 768

\* ------------------------------------------------------------ input sets
\* What the host window can present: window.innerWidth, the container's
\* clientWidth and clientHeight, and window.devicePixelRatio in halves
\* (3 is a ratio of 1.5, 4 a ratio of 2).
Hosts ==
    { [inner |-> 1000, cw |-> 401, ch |-> 201, dpr2 |-> 3],
      [inner |-> 700,  cw |-> 401, ch |-> 201, dpr2 |-> 3],
      [inner |-> 1000, cw |-> 300, ch |-> 200, dpr2 |-> 4] }

InitialHost == [inner |-> 1000, cw |-> 401, ch |-> 201, dpr2 |-> 3]

\* decoded recordings, by their number of samples; NoBuffer is null
BufLens == {0, 4}
NoBuffer == -1

\* the duration of a decoded recording, in seconds
Durations == {120}

\* the amplitude frames the analyser delivers while recording
AudioFrames == {<<1>>}

\* horizontal offsets of a click on the canvas
ClickXs == {300}

PropValues == {"unset", "true", "false"}

Effects == {"live", "listener", "extract", "draw"}

VARIABLES
    \* props
    onlyRecording, speed, progressProp, hoverProp,
    \* host window
    host,
    \* controls (the recording collaborator's state)
    audioData, isRecordingInProgress, isPausedRecording,
    isProcessingRecordedAudio, bufferFromRecordedBlob, isCleared,
    duration, currentAudioTime,
    \* component state (useState)
    canvasCurrentWidth, canvasCurrentHeight, canvasWidth,
    isRecordedCanvasHovered, screenWidth, isResizing, isProcessingAudio,
    \* refs
    picksRef, indexSpeedRef,
    \* useWebWorker
    barsData, inflight,
    \* useDebounce
    debouncePending,
    \* effects of the current commit still to run
    pending,
    \* what the last step called, and the tick history of the live renderer
    called, arg, sinceDraw, resized,
    \* window.devicePixelRatio (in halves) as onResize last read it
    dprAtResize

props == <<onlyRecording, speed, progressProp, hoverProp>>
controls == <<audioData, isRecordingInProgress, isPausedRecording,
              isProcessingRecordedAudio, bufferFromRecordedBlob, isCleared,
              duration, currentAudioTime>>
geometry == <<canvasCurrentWidth, canvasCurrentHeight, canvasWidth, screenWidth,
              dprAtResize>>
flags == <<isRecordedCanvasHovered, isResizing, isProcessingAudio>>
refs == <<picksRef, indexSpeedRef>>
worker == <<barsData, inflight>>
ticks == <<sinceDraw, resized>>

vars == <<props, host, controls, geometry, flags, refs, worker,
          debouncePending, pending, called, arg, ticks>>

\* ------------------------------------------------------- derived values
Min(a, b) == IF a < b THEN a ELSE b
Max(a, b) == IF a > b THEN a ELSE b

Zero == [num |-> 0, den |-> 1]

EmptyBars == [n |-> 0, width |-> 0, height |-> 0, barWidth |-> 0, gap |-> 0]

IsAvailableRecordedAudio ==
    bufferFromRecordedBlob # NoBuffer /\ ~isProcessingRecordedAudio

IsMobile == screenWidth < MobileBreakpoint

FormattedSpeed == speed

FormattedGap == DefaultGap

FormattedBarWidth ==
    IF IsMobile /\ FormattedGap > 0 THEN DefaultBarWidth + 1 ELSE DefaultBarWidth

\* the horizontal step handed to drawByLiveStream
Unit == FormattedBarWidth + FormattedGap * FormattedBarWidth

IsProgressIndicatorShown ==
    IF progressProp = "unset" THEN ~onlyRecording ELSE progressProp = "true"

IsProgressIndicatorOnHoverShown ==
    IF hoverProp = "unset" THEN ~onlyRecording ELSE hoverProp = "true"

\* Math.trunc(clientHeight * devicePixelRatio / 2) * 2
RoundedHeight(ch, d2) == ((ch * d2) \div 4) * 2

\* (mutation) the product is truncated instead of rounded
TruncatedWidth(cw, d2) == (cw * d2) \div 2

\* Math.round(clientWidth * devicePixelRatio)
RoundedWidth(cw, d2) == (cw * d2 + 1) \div 2

\* ------------------------------------------------- Bar Extractor (4.1)
GetBarsData(req) ==
    IF req.buf = 0 \/ req.width <= 0
    THEN EmptyBars
    ELSE [n |-> Max(1, req.width \div (req.barWidth + req.gap)),
          width |-> req.width, height |-> req.height,
          barWidth |-> req.barWidth, gap |-> req.gap]

\* --------------------------------------- Background Compute Channel (4.2)
\* run(request): the new request supersedes every request still in flight.
Run(req) ==
    { [r EXCEPT !.stale = TRUE] : r \in inflight } \cup {[req |-> req, stale |-> FALSE]}

\* the superseded requests still unanswered
Superseded == Cardinality({r \in inflight : r.stale})

\* (mutation) last-arrived-wins: every response is applied
AcceptsAnyResponse(r) == TRUE

\* A response is applied only if no newer request was submitted since.
Accepts(r) == ~r.stale

\* ------------------------------------------------ Live-stream renderer
\* drawByLiveStream: a pick is appended only while recording and not paused
\* (the newest amplitude, or 0 when the stream is momentarily empty); a full
\* ring evicts its oldest pick.
NewestAmplitude == IF audioData = <<>> THEN 0 ELSE audioData[Len(audioData)]

DrawByLiveStream(picks) ==
    IF isRecordingInProgress /\ ~isPausedRecording
    THEN IF Len(picks) >= RingCap
         THEN Append(Tail(picks), NewestAmplitude)
         ELSE Append(picks, NewestAmplitude)
    ELSE picks

\* ------------------------------------------------------------- commits
\* The effects whose dependency arrays differ between this state and the
\* next; `forced` are effects whose dependency is replaced by a fresh object
\* (a new audioData or barsData array) even when its contents are equal.
Dirty(forced) ==
    forced
    \cup (IF canvasWidth' # canvasWidth \/ FormattedBarWidth' # FormattedBarWidth
          THEN {"live"} ELSE {})
    \cup (IF IsAvailableRecordedAudio' # IsAvailableRecordedAudio
          THEN {"listener"} ELSE {})
    \cup (IF \/ bufferFromRecordedBlob' # bufferFromRecordedBlob
             \/ canvasCurrentWidth' # canvasCurrentWidth
             \/ canvasCurrentHeight' # canvasCurrentHeight
          THEN {"extract"} ELSE {})
    \cup (IF \/ barsData' # barsData
             \/ currentAudioTime' # currentAudioTime
             \/ isCleared' # isCleared
             \/ isResizing' # isResizing
          THEN {"draw"} ELSE {})

\* An event is taken only between commits.
Quiet == pending = {}

\* An event `name` with argument `a`: its effects are scheduled.
Event(name, a, forced) ==
    /\ called' = {name}
    /\ arg' = a
    /\ pending' = Dirty(forced)

\* An effect of the current commit has run.
Ran(me, calls, forced) ==
    /\ called' = {me} \cup calls
    /\ arg' = 0
    /\ pending' = (pending \ {me}) \cup Dirty(forced)

\* clearCanvas of the recording collaborator
ClearCanvasState ==
    /\ isRecordingInProgress' = FALSE
    /\ isPausedRecording' = FALSE
    /\ isProcessingRecordedAudio' = FALSE
    /\ bufferFromRecordedBlob' = NoBuffer
    /\ duration' = 0
    /\ currentAudioTime' = Zero
    /\ audioData' = <<>>
    /\ isCleared' = TRUE

\* ----------------------------------------------------------------- Init
\* The state after the first render: every effect is still to run.  The
\* explicit indicator props and the non-default speeds are explored in
\* only-live-recording mode.
Init ==
    /\ onlyRecording \in BOOLEAN
    /\ speed \in 1..DefaultSpeed
    /\ progressProp \in PropValues
    /\ hoverProp \in PropValues
    /\ onlyRecording \/ (speed = DefaultSpeed /\ progressProp = "unset" /\ hoverProp = "unset")
    /\ speed = DefaultSpeed \/ (progressProp = "unset" /\ hoverProp = "unset")
    /\ host = InitialHost
    /\ audioData = <<>>
    /\ isRecordingInProgress = FALSE
    /\ isPausedRecording = FALSE
    /\ isProcessingRecordedAudio = FALSE
    /\ bufferFromRecordedBlob = NoBuffer
    /\ isCleared = TRUE
    /\ duration = 0
    /\ currentAudioTime = Zero
    /\ canvasCurrentWidth = 0
    /\ canvasCurrentHeight = 0
    /\ canvasWidth = 0
    /\ isRecordedCanvasHovered = FALSE
    /\ screenWidth = 0
    /\ dprAtResize = InitialHost.dpr2
    /\ isResizing = FALSE
    /\ isProcessingAudio = FALSE
    /\ picksRef = <<>>
    /\ indexSpeedRef = FormattedSpeed
    /\ barsData = EmptyBars
    /\ inflight = {}
    /\ debouncePending = FALSE
    /\ pending = Effects
    /\ called = {"mount"}
    /\ arg = 0
    /\ sinceDraw = -1
    /\ resized = FALSE

\* -------------------------------------------------------------- effects
\* (mutation) the threshold is compared with > instead of >=
LiveDrawsOffByOne == indexSpeedRef > FormattedSpeed \/ Len(audioData) = 0

\* the throttle of the live-stream tick
LiveDraws == indexSpeedRef >= FormattedSpeed \/ Len(audioData) = 0

\* useLayoutEffect: one tick of the live-stream renderer
LiveStreamTick ==
    /\ "live" \in pending
    /\ indexSpeedRef' = (IF LiveDraws THEN 0 ELSE indexSpeedRef) + 1
    /\ picksRef' = IF LiveDraws THEN DrawByLiveStream(picksRef) ELSE picksRef
    /\ sinceDraw' = IF LiveDraws THEN 0
                    ELSE IF sinceDraw < 0 THEN sinceDraw
                    ELSE Min(sinceDraw + 1, DefaultSpeed + 1)
    /\ resized' = FALSE
    /\ UNCHANGED <<props, host, controls, geometry, flags, worker, debouncePending>>
    /\ Ran("live", IF LiveDraws THEN {"drawByLiveStream"} ELSE {}, {})

\* useEffect [width, isAvailableRecordedAudio]: (re)registers handleResize
\* and calls debouncedOnResize()
ResizeListenerEffect ==
    /\ "listener" \in pending
    /\ "live" \notin pending
    /\ debouncePending' = TRUE
    /\ UNCHANGED <<props, host, controls, geometry, flags, refs, worker, ticks>>
    /\ Ran("listener", {"debouncedOnResize"}, {})

\* the early return of the extraction effect
ExtractionSkips == bufferFromRecordedBlob = NoBuffer \/ isRecordingInProgress

\* (mutation) the onlyRecording branch is missing
ExtractionNeverSuppressed == FALSE

\* only-live-recording mode: the recording is cleared instead of extracted
ExtractionSuppressed == onlyRecording

\* the parameters handed to run
ExtractionRequest ==
    [buf |-> bufferFromRecordedBlob,
     height |-> canvasCurrentHeight,
     width |-> canvasWidth,
     barWidth |-> FormattedBarWidth,
     gap |-> FormattedGap]

\* useEffect [bufferFromRecordedBlob, canvasCurrentWidth, canvasCurrentHeight,
\* gap, barWidth]: submits the extraction
ExtractionEffect ==
    /\ "extract" \in pending
    /\ pending \cap {"live", "listener"} = {}
    /\ IF ExtractionSkips
       THEN /\ UNCHANGED <<props, host, controls, geometry, flags, refs, worker,
                           debouncePending, ticks>>
            /\ Ran("extract", {}, {})
       ELSE IF ExtractionSuppressed
       THEN /\ ClearCanvasState
            /\ UNCHANGED <<props, host, geometry, flags, refs, worker,
                           debouncePending, ticks>>
            /\ Ran("extract", {"clearCanvas"}, {"live"})
       ELSE /\ picksRef' = <<>>
            /\ inflight' = Run(ExtractionRequest)
            /\ UNCHANGED <<props, host, controls, geometry, flags, indexSpeedRef,
                           barsData, debouncePending, ticks>>
            /\ Ran("extract", {"run"}, {})

\* (mutation) the guard does not look at isResizing
StaticDrawSkipsIgnoringResize == onlyRecording \/ barsData.n = 0

\* the early return of the static renderer
StaticDrawSkips == onlyRecording \/ barsData.n = 0 \/ isResizing

\* (mutation) the isCleared branch is missing
StaticDrawNeverCleared == FALSE

\* the cleared branch of the static renderer
StaticDrawCleared == isCleared

\* useEffect [barsData, currentAudioTime, isCleared, ..., isResizing]: the
\* static renderer
StaticDrawEffect ==
    /\ "draw" \in pending
    /\ pending \cap {"live", "listener", "extract"} = {}
    /\ IF StaticDrawSkips
       THEN /\ UNCHANGED <<props, host, controls, geometry, flags, refs, worker,
                           debouncePending, ticks>>
            /\ Ran("draw", {}, {})
       ELSE IF StaticDrawCleared
       THEN /\ barsData' = EmptyBars
            /\ UNCHANGED <<props, host, controls, geometry, flags, refs, inflight,
                           debouncePending, ticks>>
            /\ Ran("draw", {"setBarsData"}, {})
       ELSE /\ isProcessingAudio' = FALSE
            /\ isProcessingRecordedAudio' = FALSE
            /\ UNCHANGED <<props, host, audioData, isRecordingInProgress,
                           isPausedRecording, bufferFromRecordedBlob, isCleared,
                           duration, currentAudioTime, geometry,
                           isRecordedCanvasHovered, isResizing, refs, worker,
                           debouncePending, ticks>>
            /\ Ran("draw", {"drawByBlob"}, {})

\* ------------------------------------------------- timers and messages
\* the debounce timer fires: onResize
OnResize ==
    /\ Quiet
    /\ debouncePending
    /\ debouncePending' = FALSE
    /\ indexSpeedRef' = FormattedSpeed
    /\ canvasCurrentWidth' = host.cw
    /\ canvasCurrentHeight' = RoundedHeight(host.ch, host.dpr2)
    /\ canvasWidth' = RoundedWidth(host.cw, host.dpr2)
    /\ screenWidth' = host.inner
    /\ dprAtResize' = host.dpr2
    /\ isResizing' = FALSE
    /\ resized' = TRUE
    /\ UNCHANGED <<props, host, controls, isRecordedCanvasHovered,
                   isProcessingAudio, picksRef, worker, sinceDraw>>
    /\ Event("onResize", 0, {})

\* the worker answers a request
WorkerResponse(r) ==
    /\ Quiet
    /\ r \in inflight
    /\ inflight' = inflight \ {r}
    /\ barsData' = IF Accepts(r) THEN GetBarsData(r.req) ELSE barsData
    /\ UNCHANGED <<props, host, controls, geometry, flags, refs,
                   debouncePending, ticks>>
    /\ IF Accepts(r)
       THEN Event("setResult", 0, {"draw"})
       ELSE Event("discard", 0, {})

\* ----------------------------------------------------------- host events
\* the window is resized: handleResize
HandleResize(h) ==
    /\ Quiet
    /\ h # host
    /\ Superseded < MaxStale
    /\ host' = h
    /\ IF IsAvailableRecordedAudio
       THEN /\ isProcessingAudio' = TRUE
            /\ isResizing' = TRUE
            /\ debouncePending' = TRUE
       ELSE UNCHANGED <<isProcessingAudio, isResizing, debouncePending>>
    /\ UNCHANGED <<props, controls, geometry, isRecordedCanvasHovered, refs,
                   worker, ticks>>
    /\ Event("resize", 0, {})

\* (mutation) the click is scaled by the canvas pixel width
SeekTimeByPixelWidth(x) == [num |-> duration * x, den |-> canvasWidth]

\* the seek time of a click at horizontal offset x
SeekTime(x) == [num |-> duration * x, den |-> canvasCurrentWidth]

\* a click on the canvas: handleRecordedAudioCurrentTime
HandleRecordedAudioCurrentTime(x) ==
    /\ Quiet
    /\ IsAvailableRecordedAudio
    /\ canvasCurrentWidth > 0
    /\ x <= canvasCurrentWidth
    /\ currentAudioTime' = SeekTime(x)
    /\ UNCHANGED <<props, host, audioData, isRecordingInProgress,
                   isPausedRecording, isProcessingRecordedAudio,
                   bufferFromRecordedBlob, isCleared, duration, geometry, flags,
                   refs, worker, debouncePending, ticks>>
    /\ Event("setCurrentAudioTime", x, {})

\* mouseenter / mouseleave on the canvas: showTimeIndicator, hideTimeIndicator
ToggleTimeIndicator ==
    /\ Quiet
    /\ IsAvailableRecordedAudio
    /\ isRecordedCanvasHovered' = ~isRecordedCanvasHovered
    /\ UNCHANGED <<props, host, controls, geometry, isResizing, isProcessingAudio,
                   refs, worker, debouncePending, ticks>>
    /\ Event("hover", 0, {})

\* what the render shows
HoverIndicatorVisible ==
    /\ isRecordedCanvasHovered
    /\ IsAvailableRecordedAudio
    /\ ~isProcessingAudio
    /\ ~IsMobile
    /\ IsProgressIndicatorOnHoverShown

\* (mutation) the indicator does not wait for the recorded audio
ProgressIndicatorVisibleWithoutAudio ==
    /\ IsProgressIndicatorShown
    /\ ~isResizing
    /\ duration # 0

ProgressIndicatorVisible ==
    /\ IsProgressIndicatorShown
    /\ IsAvailableRecordedAudio
    /\ ~isResizing
    /\ duration # 0

\* ------------------------------------------------ control-panel buttons
\* the microphone button, rendered while isCleared
StartRecording ==
    /\ Quiet
    /\ isCleared
    /\ ~isRecordingInProgress
    /\ isRecordingInProgress' = TRUE
    /\ isCleared' = FALSE
    /\ UNCHANGED <<props, host, audioData, isPausedRecording,
                   isProcessingRecordedAudio, bufferFromRecordedBlob, duration,
                   currentAudioTime, geometry, flags, refs, worker,
                   debouncePending, ticks>>
    /\ Event("startRecording", 0, {})

\* the pause / resume button, rendered while recording
TogglePauseResume ==
    /\ Quiet
    /\ isRecordingInProgress
    /\ isPausedRecording' = ~isPausedRecording
    /\ UNCHANGED <<props, host, audioData, isRecordingInProgress,
                   isProcessingRecordedAudio, bufferFromRecordedBlob, isCleared,
                   duration, currentAudioTime, geometry, flags, refs, worker,
                   debouncePending, ticks>>
    /\ Event("togglePauseResume", 0, {})

\* the stop button
StopRecording ==
    /\ Quiet
    /\ isRecordingInProgress
    /\ isRecordingInProgress' = FALSE
    /\ isPausedRecording' = FALSE
    /\ isProcessingRecordedAudio' = TRUE
    /\ UNCHANGED <<props, host, audioData, bufferFromRecordedBlob, isCleared,
                   duration, currentAudioTime, geometry, flags, refs, worker,
                   debouncePending, ticks>>
    /\ Event("stopRecording", 0, {})

\* (mutation) the buttons look at isProcessingRecordedAudio only
ControlsDisabledWhileRecordedOnly == isProcessingRecordedAudio

\* the disabled attribute of the Clear, play / pause and Download buttons
ControlsDisabled == isProcessingRecordedAudio \/ isProcessingAudio

\* the Clear button, rendered while not cleared and disabled while processing
ClearCanvas ==
    /\ Quiet
    /\ ~isCleared
    /\ ~ControlsDisabled
    /\ ClearCanvasState
    /\ UNCHANGED <<props, host, geometry, flags, refs, worker, debouncePending,
                   ticks>>
    /\ Event("clearCanvas", 0, {"live"})

\* the play / pause button of the recorded audio, rendered while not cleared
\* and disabled while processing: togglePauseResume outside a recording (in
\* a recording the same handler is the pause / resume above).  The playback
\* state it toggles is the collaborator's and is read only for the icon.
TogglePlayback ==
    /\ Quiet
    /\ ~isCleared
    /\ ~isRecordingInProgress
    /\ ~ControlsDisabled
    /\ UNCHANGED <<props, host, controls, geometry, flags, refs, worker,
                   debouncePending, ticks>>
    /\ Event("togglePauseResume", 0, {})

\* the isDownloadAudioButtonShown prop: the configuration that renders the
\* Download Audio button
IsDownloadAudioButtonShown == TRUE

\* recordedBlob: a recording has been stopped and not cleared
RecordedBlobPresent == ~isCleared /\ ~isRecordingInProgress

\* the Download Audio button, disabled while processing: saveAudioFile
SaveAudioFile ==
    /\ Quiet
    /\ IsDownloadAudioButtonShown
    /\ RecordedBlobPresent
    /\ ~ControlsDisabled
    /\ UNCHANGED <<props, host, controls, geometry, flags, refs, worker,
                   debouncePending, ticks>>
    /\ Event("saveAudioFile", 0, {})

\* ------------------------------------------------ recording collaborator
\* a new amplitude frame arrives
AudioFrame(a) ==
    /\ Quiet
    /\ isRecordingInProgress
    /\ ~isPausedRecording
    /\ audioData' = a
    /\ UNCHANGED <<props, host, isRecordingInProgress, isPausedRecording,
                   isProcessingRecordedAudio, bufferFromRecordedBlob, isCleared,
                   duration, currentAudioTime, geometry, flags, refs, worker,
                   debouncePending, ticks>>
    /\ Event("audioData", 0, {"live"})

\* the decoded recording is delivered
BufferDelivered(len, d) ==
    /\ Quiet
    /\ isProcessingRecordedAudio
    /\ ~isRecordingInProgress
    /\ bufferFromRecordedBlob = NoBuffer
    /\ Superseded < MaxStale
    /\ bufferFromRecordedBlob' = len
    /\ duration' = d
    /\ UNCHANGED <<props, host, audioData, isRecordingInProgress,
                   isPausedRecording, isProcessingRecordedAudio, isCleared,
                   currentAudioTime, geometry, flags, refs, worker,
                   debouncePending, ticks>>
    /\ Event("bufferFromRecordedBlob", 0, {})

\* ----------------------------------------------------------------- Next
Next ==
    \/ LiveStreamTick
    \/ ResizeListenerEffect
    \/ ExtractionEffect
    \/ StaticDrawEffect
    \/ OnResize
    \/ \E r \in inflight : WorkerResponse(r)
    \/ \E h \in Hosts : HandleResize(h)
    \/ \E x \in ClickXs : HandleRecordedAudioCurrentTime(x)
    \/ ToggleTimeIndicator
    \/ StartRecording
    \/ TogglePauseResume
    \/ StopRecording
    \/ ClearCanvas
    \/ TogglePlayback
    \/ SaveAudioFile
    \/ \E a \in AudioFrames : AudioFrame(a)
    \/ \E len \in BufLens, d \in Durations : BufferDelivered(len, d)

Spec == Init /\ [][Next]_vars

\* Every scheduled effect runs and the debounce timer fires.
FairSpec ==
    /\ Spec
    /\ WF_vars(LiveStreamTick)
    /\ WF_vars(ResizeListenerEffect)
    /\ WF_vars(ExtractionEffect)
    /\ WF_vars(StaticDrawEffect)
    /\ WF_vars(OnResize)

\* ================================================================ claims
DrawsByBlob == "drawByBlob" \in called
Ticked == "live" \in called
DrewLive == "drawByLiveStream" \in called

\* C1: once onResize has changed the canvas pixel width, drawByBlob is never
\* invoked with bars extracted for another width: whenever drawByBlob is
\* called, the barsData it is handed were extracted for the current
\* canvasWidth.
C1_NoStaleWidthDrawn == DrawsByBlob => barsData.width = canvasWidth

C3_OneOfEverySpeed ==
    [][(Ticked' /\ sinceDraw >= 0) => (DrewLive' <=> sinceDraw + 1 = speed)]_vars

\* C3 (amended): a tick with an empty audioData, and the first tick after
\* onResize, always call drawByLiveStream; any other tick calls it exactly
\* when it is the speed-th tick since the last drawing tick, and a tick that
\* does not call it leaves the picks untouched.
C3_Throttle ==
    [][Ticked' =>
          /\ (Len(audioData) = 0 \/ resized \/ sinceDraw < 0) => DrewLive'
          /\ (Len(audioData) > 0 /\ ~resized /\ sinceDraw >= 0)
                 => (DrewLive' <=> sinceDraw + 1 = speed)
          /\ ~DrewLive' => picksRef' = picksRef]_vars

\* the last of the speed-1 skipped ticks between two draws
C3_Witness ==
    /\ Ticked /\ ~DrewLive
    /\ speed = DefaultSpeed
    /\ sinceDraw = speed - 1
    /\ Len(audioData) > 0

\* C4: after onResize re-submits the extraction, isProcessingAudio stays
\* true until the response has landed: it is never lowered while the last
\* submitted request is still unanswered.
C4_ProcessingHeldUntilResponse ==
    [][(isProcessingAudio /\ ~isProcessingAudio')
          => ~(\E r \in inflight : ~r.stale)]_vars

\* C5: drawByBlob is never called while isResizing is true.
C5_NoDrawWhileResizing == DrawsByBlob => ~isResizing

\* the static renderer ran with bars to draw during a resize, and skipped
C5_Witness ==
    /\ "draw" \in called
    /\ isResizing
    /\ barsData.n > 0
    /\ ~isCleared

\* C6: while isCleared is true drawByBlob is not called, and a non-empty
\* barsData under isCleared is eventually emptied.
C6_ClearedShortCircuits ==
    /\ [](DrawsByBlob => ~isCleared)
    /\ (isCleared /\ barsData.n > 0) ~> (barsData.n = 0)

\* a worker result has landed after the clear
C6_Witness == isCleared /\ called = {"setResult"} /\ barsData.n > 0

\* C7: every window resize event is followed by a recomputation of the
\* geometry: after the resize event the debounced onResize is scheduled, in
\* every component state.
C7_ResizeSchedulesRecompute == ("resize" \in called) => debouncePending

\* C8: with onlyRecording, run is never called and drawByBlob never invoked:
\* no request is ever in flight and barsData stays empty.
C8_OnlyRecordingNoStatic ==
    onlyRecording =>
        /\ "run" \notin called
        /\ ~DrawsByBlob
        /\ inflight = {}
        /\ barsData = EmptyBars

\* a decoded recording arrived in only-live-recording mode and was cleared
C8_Witness ==
    /\ onlyRecording
    /\ {"extract", "clearCanvas"} \subseteq called
    /\ canvasWidth > 0

C10_SeekByPixelWidth ==
    ("setCurrentAudioTime" \in called)
        => currentAudioTime.num * canvasWidth
               = duration * arg * currentAudioTime.den

\* C10 (amended): a click at offset x sets the playback clock to
\* duration * x / W with W the canvas CSS width (the container's
\* clientWidth at the last recomputation), for every device pixel ratio.
C10_SeekByCssWidth ==
    ("setCurrentAudioTime" \in called)
        => /\ currentAudioTime.den > 0
           /\ currentAudioTime.num * canvasCurrentWidth
                  = duration * arg * currentAudioTime.den

\* a click at x = 300 on a 300 CSS pixel wide canvas of 600 device pixels
C10_Witness ==
    /\ "setCurrentAudioTime" \in called
    /\ arg = 300
    /\ canvasCurrentWidth = 300
    /\ canvasWidth = 600
    /\ duration = 120
    /\ currentAudioTime.num = 120 * currentAudioTime.den

\* ------------------------------------------------------------------ C11
\* C11: in every state, the initial one included, the canvas pixel width is
\* the container width times the device pixel ratio, both as the last
\* onResize read them, rounded to the nearest integer (half up), and the
\* canvas pixel height is even.
C11_GeometryInvariant ==
    /\ 2 * canvasWidth - 1 <= canvasCurrentWidth * dprAtResize
    /\ canvasCurrentWidth * dprAtResize < 2 * canvasWidth + 1
    /\ canvasCurrentHeight % 2 = 0

\* onResize has read a fractional ratio and a product that is not an integer
C11_Witness ==
    /\ called = {"onResize"}
    /\ (canvasCurrentWidth * dprAtResize) % 2 = 1
    /\ canvasCurrentHeight > 0

\* ------------------------------------------------------------------ C12
\* the drawing surface has no width or no height
SurfaceEmpty == canvasWidth = 0 \/ canvasCurrentHeight = 0

\* C12: a live-render tick that finds the amplitude stream empty with no
\* recording in progress, or a drawing surface of zero width or height, does
\* not call drawByLiveStream.  (The tick changes none of these values, so
\* they are read in the state the tick leaves.)
C12_NoDrawWhenStoppedOrEmpty ==
    (Ticked /\ ((audioData = <<>> /\ ~isRecordingInProgress) \/ SurfaceEmpty))
        => ~DrewLive

\* ------------------------------------------------------------------ C13
\* C13: the unit handed to drawByLiveStream is the effective bar width plus
\* the gap.
C13_UnitIsWidthPlusGap ==
    DrewLive => Unit = FormattedBarWidth + FormattedGap

Settled ==
    /\ Quiet
    /\ ~debouncePending
    /\ inflight = {}
    /\ bufferFromRecordedBlob # NoBuffer

\* C15: no processing flag stays raised: once the debounce has fired, the
\* worker has answered and the effects have run, isProcessingAudio and
\* isProcessingRecordedAudio are both lowered, whatever the extraction
\* returned.
C15_ProcessingNotStuck ==
    Settled => ~(isProcessingRecordedAudio \/ isProcessingAudio)

\* ------------------------------------------------------------------ C16
\* C16: whenever drawByBlob is called, the bar width and the gap handed to
\* it are those of the extraction request that produced the barsData drawn.
C16_SameBarGeometry ==
    DrawsByBlob =>
        /\ barsData.barWidth = FormattedBarWidth
        /\ barsData.gap = FormattedGap

\* ------------------------------------------------------------------ C17
\* a step taken from the control panel: the Clear button, the play / pause
\* button of the recorded audio, the Download Audio button
PanelStep ==
    \/ called' = {"clearCanvas"}
    \/ called' = {"togglePauseResume"} /\ ~isRecordingInProgress
    \/ called' = {"saveAudioFile"}

\* C17: while isProcessingRecordedAudio or isProcessingAudio is true, no
\* step is a click on Clear, on play / pause of the recorded audio or on
\* Download Audio: clearCanvas, togglePauseResume and saveAudioFile are not
\* triggered from the control panel.
C17_ControlsLocked ==
    [][(isProcessingRecordedAudio \/ isProcessingAudio) => ~PanelStep]_vars

\* the three buttons are rendered and processing is going on after a resize
C17_Witness ==
    /\ Quiet
    /\ isProcessingAudio
    /\ ~isCleared
    /\ IsDownloadAudioButtonShown
    /\ RecordedBlobPresent

==============================================================================
